---- MODULE Spec2Model ----
(***************************************************************************)
(* The couple-pairing state machine of src/controllers/authController.js:  *)
(* onboardCreator (CreateInvite), pairCouple (Pair) and unlinkCouple       *)
(* (Unlink), each a multi-statement transaction on the users and couples   *)
(* tables, with the other handlers that take a pool connection             *)
(* (submitWelcomeAnswers, updateProfile, upsertSharedPicture), with        *)
(* deleteSharedPicture and with the read-only getInvitePreview, getMe,     *)
(* getDashboard and getDashboardDetails.  Every SQL statement is one step. *)
(* A transaction's writes are kept in a private overlay until COMMIT         *)
(* (PostgreSQL READ COMMITTED, the level a bare BEGIN gives): a statement  *)
(* reads the committed rows plus the transaction's own writes, and an      *)
(* UPDATE or DELETE of a row another open transaction has written waits    *)
(* for that transaction to end and then re-evaluates its WHERE clause on   *)
(* the row's new version.  What each request does with its connection      *)
(* (connect, BEGIN, COMMIT, ROLLBACK, respond, release) is logged in the    *)
(* order the handler's code issues it.                                     *)
(***************************************************************************)
EXTENDS Integers, Sequences, FiniteSets, TLC

\* ---------------------------------------------------------------- bounds
NumUsers == 3
MaxCoupleId == 2
NumProcs == 2
\* requests let in: by the concurrent specification, by the concurrent
\* specification of the races (one call sets up what two others race for), and
\* by the sequential specification
MaxRequests == 2
MaxRaceRequests == 3
MaxSeqRequests == 4
\* ... and by the sequential specification of all the transactional handlers
MaxHandlerRequests == 3
\* ... by the specification of the shared-picture handlers, by the one of
\* concurrent answer submissions, and by the one of the status queries
MaxMediaRequests == 3
MaxAnswersRequests == 3
MaxStatusRequests == 4

Users == 1..NumUsers
CoupleIds == 1..MaxCoupleId
Procs == 1..NumProcs
\* the one request handled at a time in the sequential specification
SeqProcs == {1}
\* the id of an account deleted (deleteAccount) while its token is still valid
DeletedUser == NumUsers + 1

\* SQL NULL / JS undefined: 0 for an id column (ids start at 1 and 0 is falsy,
\* as null is in `oldCoupleId && ...`), a reserved text for a text column
NULL == 0
NullText == "NULL"
\* an absent couples row, and an overlay slot the transaction has not written
NoRow == [exists |-> FALSE]
Untouched == [touched |-> FALSE]

\* ------------------------------------------------- strings (JS and SQL)
\* A string is a sequence of one-character strings.

\* String.prototype.toUpperCase / SQL UPPER, on the characters of the model
UpperChar(c) ==
  CASE c = "a" -> "A"
    [] c = "b" -> "B"
    [] c = "z" -> "Z"
    [] OTHER -> c

ToUpperCase(s) == [i \in 1..Len(s) |-> UpperChar(s[i])]

IsSpace(c) == c = " "

RECURSIVE TrimLeft(_)
TrimLeft(s) ==
  IF Len(s) > 0 /\ IsSpace(s[1]) THEN TrimLeft(Tail(s)) ELSE s

RECURSIVE TrimRight(_)
TrimRight(s) ==
  IF Len(s) > 0 /\ IsSpace(s[Len(s)]) THEN TrimRight(SubSeq(s, 1, Len(s) - 1)) ELSE s

\* String.prototype.trim / SQL TRIM
Trim(s) == TrimLeft(TrimRight(s))

\* String.prototype.substring(from, to), 0-based, end exclusive
Substring(s, from, to) ==
  SubSeq(s, from + 1, IF to < Len(s) THEN to ELSE Len(s))

\* values Math.random().toString(36) can return
RandomBase36 == { <<"0", ".", "a", "7">>, <<"0", ".", "b", "7">> }

\* Math.random().toString(36).substring(2, 8).toUpperCase()
GenerateInviteCode(r) == ToUpperCase(Substring(r, 2, 8))

\* inviteCode.trim().toUpperCase(), the $1 of pairCouple's lookup
NormalizeInput(code) == ToUpperCase(Trim(code))

\* TRIM(UPPER(invite_code)), the column side of pairCouple's lookup
NormalizeColumn(code) == Trim(ToUpperCase(code))

\* a jsonb column: SQL NULL, or an object with a value under some user ids
EmptyMap == [u \in Users |-> NullText]
NullJson == [null |-> TRUE, keys |-> EmptyMap]

\* JSON.stringify({ [userId]: answers })
AnswerObject(u, answers) == [null |-> FALSE, keys |-> [EmptyMap EXCEPT ![u] = answers]]

\* COALESCE(a, '{}'::jsonb)
Coalesce(a) == IF a.null THEN [null |-> FALSE, keys |-> EmptyMap] ELSE a

\* a || b on jsonb objects: b's keys win; NULL if either side is NULL
Concat(a, b) ==
  IF a.null \/ b.null THEN NullJson
  ELSE [null |-> FALSE,
        keys |-> [u \in Users |-> IF b.keys[u] # NullText THEN b.keys[u] ELSE a.keys[u]]]

\* req.body.inviteCode when the body has no inviteCode
Undefined == <<"undefined">>

\* request bodies
PairCodes == { <<" ", "a", "7", " ">>, <<"B", "7">>, <<"z", "7">> }
SentProfile == [nickname |-> "nick", avatar_id |-> "av1", gender |-> "f"]
Profiles == { SentProfile }
\* a body without nickname and avatar_id: the fields read from it are undefined,
\* which the driver sends as NULL
NoProfile == [nickname |-> NullText, avatar_id |-> NullText, gender |-> NullText]
RelStatuses == { "dating" }
\* invite codes that are missing or empty
BadPairCodes == { Undefined, <<>> }
\* req.body.answers when the body has no answers: JSON.stringify leaves the key out
NoAnswers == NullText
AnswerSets == { "ans1", NoAnswers }
\* update-profile bodies: with and without rel_status (absent fields are NullText)
ProfileUpdates ==
  { [nickname |-> "nick2", avatar_id |-> NullText, rel_status |-> "married"],
    [nickname |-> NullText, avatar_id |-> "av2", rel_status |-> NullText] }
SecureUrl == "https://res.cloudinary.com/twofold_shared/couple.jpg"

\* error codes a failing statement can carry (connection loss, value too long)
ThrowCodes == { "08006", "22001" }

\* ----------------------------------------------------------------- state
VARIABLES
  users,     \* committed users rows: [Users -> row]
  couples,   \* committed couples rows: [CoupleIds -> row or NoRow]
  nextId,    \* the couples id sequence
  pc,        \* per connection: the statement the handler is at
  req,       \* per connection: the request being handled
  loc,       \* per connection: the handler's local variables
  tx,        \* per connection: uncommitted writes of the open transaction
  res,       \* per connection: the response sent
  nreq,      \* requests let in so far
  pre,       \* history: the committed rows when the sequential request began
  log        \* history, per connection: what the request did with its connection

vars == <<users, couples, nextId, pc, req, loc, tx, res, nreq, pre, log>>

NewUser == [couple_id |-> NULL, nickname |-> NullText, avatar_id |-> NullText,
            gender |-> NullText, onboarded |-> FALSE]

NoTx == [users |-> [u \in Users |-> Untouched],
         couples |-> [c \in CoupleIds |-> Untouched]]

NoReq == [op |-> "none", user |-> NULL]

NoLoc == [oldCoupleId |-> NULL, alreadyOnboarded |-> FALSE, newCoupleId |-> NULL,
          targetCreator |-> NULL, inviteCode |-> <<>>, coupleId |-> NULL,
          invite |-> NoRow, mode |-> NullText, partner |-> NULL]

NoRes == [status |-> NULL, error |-> NullText]

Init ==
  /\ users = [u \in Users |-> NewUser]
  /\ couples = [c \in CoupleIds |-> NoRow]
  /\ nextId = 1
  /\ pc = [p \in Procs |-> "idle"]
  /\ req = [p \in Procs |-> NoReq]
  /\ loc = [p \in Procs |-> NoLoc]
  /\ tx = [p \in Procs |-> NoTx]
  /\ res = [p \in Procs |-> NoRes]
  /\ nreq = 0
  /\ pre = [users |-> users, couples |-> couples]
  /\ log = [p \in Procs |-> <<>>]

\* ------------------------------------------------ transaction machinery
\* what connection p's statements read: committed rows under its own writes
ViewUser(p, u) ==
  IF u \notin Users THEN NoRow
  ELSE IF tx[p].users[u] = Untouched THEN users[u] ELSE tx[p].users[u]
ViewCouple(p, c) ==
  IF c \notin CoupleIds THEN NoRow
  ELSE IF tx[p].couples[c] = Untouched THEN couples[c] ELSE tx[p].couples[c]

\* a row written by another open transaction is locked until it ends
UserLocked(p, u) == u \in Users /\ \E q \in Procs \ {p} : tx[q].users[u] # Untouched
CoupleLocked(p, c) ==
  \E q \in Procs \ {p} : tx[q].couples[c] # Untouched /\ couples[c] # NoRow

WriteUser(p, u, row) == [tx EXCEPT ![p].users[u] = row]
WriteCouple(p, c, row) == [tx EXCEPT ![p].couples[c] = row]

\* COMMIT: the transaction's writes become the committed rows
CommittedUsers(p) == [u \in Users |-> ViewUser(p, u)]
CommittedCouples(p) == [c \in CoupleIds |-> ViewCouple(p, c)]

Idle(p) == pc[p] \in {"idle", "done"}

\* a request is let in, the limit-th at most; when requests are handled one at
\* a time the rows it starts from are recorded
Admit(p, limit, seq) ==
  /\ Idle(p)
  /\ nreq < limit
  /\ nreq' = nreq + 1
  /\ pre' = IF seq THEN [users |-> users, couples |-> couples] ELSE pre

\* res.status(s).json({error}), the last thing a handler does before finally
Respond(p, status, error) ==
  /\ res' = [res EXCEPT ![p] = [status |-> status, error |-> error]]
  /\ pc' = [pc EXCEPT ![p] = "done"]

\* mutant: the catch block ends the transaction with COMMIT
RollbackKeepsWrites(p) ==
  /\ users' = CommittedUsers(p)
  /\ couples' = CommittedCouples(p)
  /\ tx' = [tx EXCEPT ![p] = NoTx]

\* ROLLBACK: the transaction's writes are discarded
Rollback(p) ==
  /\ tx' = [tx EXCEPT ![p] = NoTx]
  /\ UNCHANGED <<users, couples>>

\* COMMIT
Commit(p) ==
  /\ users' = CommittedUsers(p)
  /\ couples' = CommittedCouples(p)
  /\ tx' = [tx EXCEPT ![p] = NoTx]

\* a request's connection events are appended in the order the code issues them
Log(p, events) == log' = [log EXCEPT ![p] = @ \o events]

\* const dbClient = await pool.connect(); await dbClient.query('BEGIN')
Begin(p) == log' = [log EXCEPT ![p] = <<"connect", "BEGIN">>]

\* await dbClient.query('COMMIT'); res.json(...); finally dbClient.release()
CommitAndRespond(p, message) ==
  /\ Commit(p)
  /\ Respond(p, 200, message)
  /\ Log(p, <<"COMMIT", "respond", "release">>)

\* the handler ends without a response: the awaited ROLLBACK threw (the
\* connection is gone, and the server has aborted its transaction)
NoResponse(p) ==
  /\ pc' = [pc EXCEPT ![p] = "done"]
  /\ UNCHANGED res

\* mutant: the connection is released at the end of try only, not in finally
CatchWithoutRelease(p, status, error, rollbackThrows) ==
  /\ Rollback(p)
  /\ IF rollbackThrows
       THEN NoResponse(p) /\ Log(p, <<"ROLLBACK failed">>)
       ELSE Respond(p, status, error) /\ Log(p, <<"ROLLBACK", "respond">>)

\* mutant: the catch block answers before it rolls back
CatchRespondsFirst(p, status, error, rollbackThrows) ==
  /\ Rollback(p)
  /\ Respond(p, status, error)
  /\ IF rollbackThrows
       THEN Log(p, <<"respond", "ROLLBACK failed", "release">>)
       ELSE Log(p, <<"respond", "ROLLBACK", "release">>)

\* catch (err) { await ROLLBACK; res.status(...).json(...) } finally { release }
Catch(p, status, error, rollbackThrows) ==
  /\ Rollback(p)
  /\ IF rollbackThrows
       THEN NoResponse(p) /\ Log(p, <<"ROLLBACK failed", "release">>)
       ELSE Respond(p, status, error) /\ Log(p, <<"ROLLBACK", "respond", "release">>)

\* await ROLLBACK; return res.status(400).json(...) inside try: a ROLLBACK
\* that throws lands in catch, whose ROLLBACK throws out of the handler
Reject(p, status, error, rollbackThrows) ==
  /\ Rollback(p)
  /\ IF rollbackThrows
       THEN NoResponse(p) /\ Log(p, <<"ROLLBACK failed", "ROLLBACK failed", "release">>)
       ELSE Respond(p, status, error) /\ Log(p, <<"ROLLBACK", "respond", "release">>)

\* handleAuthError: the status and message for a caught database error
HandleAuthError(code, customMessage) ==
  CASE code = "23505" ->
         [status |-> 400, error |-> "This email is already registered to a world."]
    [] code = "23503" ->
         [status |-> 404, error |-> "We couldn't find that connection. Please refresh."]
    [] code \in {"22001", "22P02"} ->
         [status |-> 400,
          error |-> "One of the fields contains invalid characters or is too long."]
    [] OTHER -> [status |-> 500, error |-> customMessage]

\* ------------------------------------------- the invite-code constraint
IsRow(r) == r # NoRow /\ r # Untouched

SameWaitingCode(r, code) ==
  /\ IsRow(r)
  /\ r.status = "waiting"
  /\ NormalizeColumn(r.invite_code) = NormalizeColumn(code)

\* mutant: couples.invite_code carries no unique index
NoUniqueIndex(p, code) == p \notin Procs /\ code = <<>>

\* the unique index on couples.invite_code among waiting rows: the INSERT
\* raises 23505 when a row the statement can see has the code
UniqueViolation(p, code) ==
  \E c \in CoupleIds : SameWaitingCode(ViewCouple(p, c), code)

\* ... and waits while another open transaction has inserted, or is changing,
\* a row with the code
InsertBlocked(p, code) ==
  \E q \in Procs \ {p} : \E c \in CoupleIds :
    /\ tx[q].couples[c] # Untouched
    /\ SameWaitingCode(tx[q].couples[c], code) \/ SameWaitingCode(couples[c], code)

\* ------------------------------------------ onboardCreator (CreateInvite)
\* couple ids not yet drawn by the onboardCreator calls in flight
PendingInserts == Cardinality({q \in Procs : pc[q] \in {"ob_update", "ob_insert"}})

\* lines 83-93: userId check, pool.connect(), BEGIN
StartOnboard(p, u, profile, rel, limit, seq) ==
  /\ Admit(p, limit, seq)
  /\ u # NULL
  /\ nextId + PendingInserts <= MaxCoupleId
  /\ req' = [req EXCEPT ![p] = [op |-> "onboardCreator", user |-> u,
                                profile |-> profile, rel_status |-> rel]]
  /\ loc' = [loc EXCEPT ![p] = NoLoc]
  /\ res' = [res EXCEPT ![p] = NoRes]
  /\ pc' = [pc EXCEPT ![p] = "ob_update"]
  /\ Begin(p)
  /\ UNCHANGED <<users, couples, nextId, tx>>

\* mutant: the profile UPDATE goes through pool.query, outside the transaction
OnboardUpdateUserOutsideTx(p) ==
  /\ pc[p] = "ob_update"
  /\ ~UserLocked(p, req[p].user)
  /\ users' = [users EXCEPT ![req[p].user] =
                 [@ EXCEPT !.nickname = req[p].profile.nickname,
                           !.avatar_id = req[p].profile.avatar_id,
                           !.gender = req[p].profile.gender,
                           !.onboarded = TRUE]]
  /\ pc' = [pc EXCEPT ![p] = "ob_insert"]
  /\ UNCHANGED <<couples, nextId, req, loc, tx, res, nreq, pre, log>>

\* lines 97-100: UPDATE users SET nickname, avatar_id, gender, onboarded = true
OnboardUpdateUser(p) ==
  /\ pc[p] = "ob_update"
  /\ ~UserLocked(p, req[p].user)
  /\ tx' = IF ViewUser(p, req[p].user) = NoRow
             THEN tx       \* WHERE id = $4 is true of no row
             ELSE WriteUser(p, req[p].user,
                     [ViewUser(p, req[p].user) EXCEPT
                        !.nickname = req[p].profile.nickname,
                        !.avatar_id = req[p].profile.avatar_id,
                        !.gender = req[p].profile.gender,
                        !.onboarded = TRUE])
  /\ pc' = [pc EXCEPT ![p] = "ob_insert"]
  /\ UNCHANGED <<users, couples, nextId, req, loc, res, nreq, pre, log>>

\* lines 103-108: generate the code, INSERT INTO couples ... RETURNING id
OnboardInsertCouple(p, r, rollbackThrows) ==
  LET inviteCode == GenerateInviteCode(r) IN
  /\ pc[p] = "ob_insert"
  /\ ~InsertBlocked(p, inviteCode)
  /\ nextId' = nextId + 1
  /\ IF UniqueViolation(p, inviteCode)
       THEN \* caught at line 122: ROLLBACK, handleAuthError
            /\ LET e == HandleAuthError("23505",
                          "We couldn't set up your profile. Please try again.")
               IN Catch(p, e.status, e.error, rollbackThrows)
            /\ UNCHANGED <<req, loc, nreq, pre>>
       ELSE /\ tx' = WriteCouple(p, nextId,
                       [invite_code |-> inviteCode, creator_id |-> req[p].user,
                        partner_id |-> NULL, rel_status |-> req[p].rel_status,
                        status |-> "waiting", answers |-> NullJson,
                        shared_image_url |-> NullText])
            /\ loc' = [loc EXCEPT ![p].inviteCode = inviteCode, ![p].coupleId = nextId]
            /\ pc' = [pc EXCEPT ![p] = "ob_link"]
            /\ UNCHANGED <<users, couples, req, res, nreq, pre, log>>

\* line 111: UPDATE users SET couple_id = coupleId
OnboardLinkUser(p) ==
  /\ pc[p] = "ob_link"
  /\ ~UserLocked(p, req[p].user)
  /\ tx' = IF ViewUser(p, req[p].user) = NoRow
             THEN tx
             ELSE WriteUser(p, req[p].user,
                     [ViewUser(p, req[p].user) EXCEPT !.couple_id = loc[p].coupleId])
  /\ pc' = [pc EXCEPT ![p] = "ob_commit"]
  /\ UNCHANGED <<users, couples, nextId, req, loc, res, nreq, pre, log>>

\* lines 113-121: COMMIT, 200 with the invite code
OnboardCommit(p) ==
  /\ pc[p] = "ob_commit"
  /\ CommitAndRespond(p, "Onboarding complete!")
  /\ UNCHANGED <<nextId, req, loc, nreq, pre>>

\* lines 122-126: a statement throws; ROLLBACK, handleAuthError
OnboardCatch(p, code, rollbackThrows) ==
  /\ pc[p] \in {"ob_update", "ob_insert", "ob_link"}
  /\ LET e == HandleAuthError(code, "We couldn't set up your profile. Please try again.")
     IN Catch(p, e.status, e.error, rollbackThrows)
  /\ UNCHANGED <<nextId, req, loc, nreq, pre>>

\* ------------------------------------------------------ pairCouple (Pair)
\* lines 160-165: pool.connect(), BEGIN
StartPair(p, u, code, profile, limit, seq) ==
  /\ Admit(p, limit, seq)
  /\ req' = [req EXCEPT ![p] = [op |-> "pairCouple", user |-> u,
                                inviteCode |-> code, profile |-> profile]]
  /\ loc' = [loc EXCEPT ![p] = NoLoc]
  /\ res' = [res EXCEPT ![p] = NoRes]
  /\ pc' = [pc EXCEPT ![p] = "pair_user"]
  /\ Begin(p)
  /\ UNCHANGED <<users, couples, nextId, tx>>

\* lines 168-173: SELECT couple_id, onboarded FROM users WHERE id = userId
PairSelectUser(p) ==
  /\ pc[p] = "pair_user"
  /\ loc' = [loc EXCEPT ![p].oldCoupleId = ViewUser(p, req[p].user).couple_id,
                        ![p].alreadyOnboarded = ViewUser(p, req[p].user).onboarded]
  /\ pc' = [pc EXCEPT ![p] = "pair_target"]
  /\ UNCHANGED <<users, couples, nextId, req, tx, res, nreq, pre, log>>

\* mutant: the lookup has no status filter
TargetRowsAnyStatus(p, code) ==
  {c \in CoupleIds :
     /\ ViewCouple(p, c) # NoRow
     /\ NormalizeColumn(ViewCouple(p, c).invite_code) = NormalizeInput(code)}

\* the rows of: SELECT id, creator_id FROM couples
\*              WHERE TRIM(UPPER(invite_code)) = $1 AND status = 'waiting'
TargetRows(p, code) ==
  {c \in CoupleIds :
     /\ ViewCouple(p, c) # NoRow
     /\ NormalizeColumn(ViewCouple(p, c).invite_code) = NormalizeInput(code)
     /\ ViewCouple(p, c).status = "waiting"}

\* lines 176-187: the lookup; no row: ROLLBACK and 400
PairSelectTarget(p, rollbackThrows) ==
  /\ pc[p] = "pair_target"
  /\ IF req[p].inviteCode = Undefined
       THEN \* inviteCode.trim() throws a TypeError, caught at line 216
            /\ Catch(p, 500, "Failed to join partner.", rollbackThrows)
            /\ UNCHANGED <<nextId, req, loc, nreq, pre>>
       ELSE IF TargetRows(p, req[p].inviteCode) = {}
       THEN /\ Reject(p, 400, "Invalid or expired invite code.", rollbackThrows)
            /\ UNCHANGED <<nextId, req, loc, nreq, pre>>
       ELSE \E c \in TargetRows(p, req[p].inviteCode) :   \* rows[0]
            /\ loc' = [loc EXCEPT ![p].newCoupleId = c,
                                  ![p].targetCreator = ViewCouple(p, c).creator_id]
            /\ pc' = [pc EXCEPT ![p] = "pair_cleanup"]
            /\ UNCHANGED <<users, couples, nextId, req, tx, res, nreq, pre, log>>

\* mutant: the cleanup looks for a 'full' couple
GhostRowFull(p) ==
  /\ ViewCouple(p, loc[p].oldCoupleId) # NoRow
  /\ ViewCouple(p, loc[p].oldCoupleId).creator_id = req[p].user
  /\ ViewCouple(p, loc[p].oldCoupleId).status = "full"

\* mutant: the cleanup deletes the old couple whatever its status
GhostRowAnyStatus(p) ==
  /\ ViewCouple(p, loc[p].oldCoupleId) # NoRow
  /\ ViewCouple(p, loc[p].oldCoupleId).creator_id = req[p].user

\* the row of: DELETE FROM couples WHERE id = $1 AND creator_id = $2 AND status = 'waiting'
GhostRow(p) ==
  /\ ViewCouple(p, loc[p].oldCoupleId) # NoRow
  /\ ViewCouple(p, loc[p].oldCoupleId).creator_id = req[p].user
  /\ ViewCouple(p, loc[p].oldCoupleId).status = "waiting"

\* lines 190-196: delete the joiner's own waiting couple
PairCleanup(p) ==
  /\ pc[p] = "pair_cleanup"
  /\ IF loc[p].oldCoupleId # NULL /\ loc[p].oldCoupleId # loc[p].newCoupleId
       THEN IF GhostRow(p)
              THEN /\ ~CoupleLocked(p, loc[p].oldCoupleId)
                   /\ tx' = WriteCouple(p, loc[p].oldCoupleId, NoRow)
              ELSE tx' = tx
       ELSE tx' = tx
  /\ pc' = [pc EXCEPT ![p] = "pair_link"]
  /\ UNCHANGED <<users, couples, nextId, req, loc, res, nreq, pre, log>>

\* lines 199-202: UPDATE users SET couple_id, nickname, avatar_id WHERE id = userId
PairLinkUser(p) ==
  /\ pc[p] = "pair_link"
  /\ ~UserLocked(p, req[p].user)
  /\ tx' = WriteUser(p, req[p].user,
                     [ViewUser(p, req[p].user) EXCEPT
                        !.couple_id = loc[p].newCoupleId,
                        !.nickname = req[p].profile.nickname,
                        !.avatar_id = req[p].profile.avatar_id])
  /\ pc' = [pc EXCEPT ![p] = "pair_finalize"]
  /\ UNCHANGED <<users, couples, nextId, req, loc, res, nreq, pre, log>>

\* lines 205-208: UPDATE couples SET partner_id = userId, status = 'full' WHERE id = newCoupleId
PairFinalize(p) ==
  /\ pc[p] = "pair_finalize"
  /\ IF ViewCouple(p, loc[p].newCoupleId) # NoRow
       THEN /\ ~CoupleLocked(p, loc[p].newCoupleId)
            /\ tx' = WriteCouple(p, loc[p].newCoupleId,
                       [ViewCouple(p, loc[p].newCoupleId) EXCEPT
                          !.partner_id = req[p].user, !.status = "full"])
       ELSE tx' = tx
  /\ pc' = [pc EXCEPT ![p] = "pair_commit"]
  /\ UNCHANGED <<users, couples, nextId, req, loc, res, nreq, pre, log>>

\* lines 210-215: COMMIT, 200
PairCommit(p) ==
  /\ pc[p] = "pair_commit"
  /\ CommitAndRespond(p, "Joined successfully!")
  /\ UNCHANGED <<nextId, req, loc, nreq, pre>>

\* lines 216-219: a statement throws; ROLLBACK, 500
PairCatch(p, rollbackThrows) ==
  /\ pc[p] \in {"pair_user", "pair_target", "pair_cleanup", "pair_link", "pair_finalize"}
  /\ Catch(p, 500, "Failed to join partner.", rollbackThrows)
  /\ UNCHANGED <<nextId, req, loc, nreq, pre>>

\* -------------------------------------------------- unlinkCouple (Unlink)
\* lines 326-329: pool.connect(), BEGIN
StartUnlink(p, u, limit, seq) ==
  /\ Admit(p, limit, seq)
  /\ req' = [req EXCEPT ![p] = [op |-> "unlinkCouple", user |-> u]]
  /\ loc' = [loc EXCEPT ![p] = NoLoc]
  /\ res' = [res EXCEPT ![p] = NoRes]
  /\ pc' = [pc EXCEPT ![p] = "unlink_user"]
  /\ Begin(p)
  /\ UNCHANGED <<users, couples, nextId, tx>>

\* mutant: the guard tests the onboarded flag
NoCoupleNotOnboarded(p) == ~ViewUser(p, req[p].user).onboarded

\* line 334: !coupleId
NoCouple(p) == ViewUser(p, req[p].user).couple_id = NULL

\* lines 331-337: SELECT couple_id FROM users; none: ROLLBACK and 400
UnlinkSelectUser(p, rollbackThrows) ==
  /\ pc[p] = "unlink_user"
  /\ IF NoCouple(p)
       THEN /\ Reject(p, 400, "Not in a relationship.", rollbackThrows)
            /\ UNCHANGED <<nextId, req, loc, nreq, pre>>
       ELSE /\ loc' = [loc EXCEPT ![p].coupleId = ViewUser(p, req[p].user).couple_id]
            /\ pc' = [pc EXCEPT ![p] = "unlink_users"]
            /\ UNCHANGED <<users, couples, nextId, req, tx, res, nreq, pre, log>>

\* mutant: only the caller's row is reset (WHERE id = userId)
MemberRowsCallerOnly(p, c) == {u \in Users : u = req[p].user /\ c # NULL}

\* the rows of: UPDATE users SET couple_id = NULL WHERE couple_id = $1
\* (couple_id = NULL is true of no row)
MemberRows(p, c) == {u \in Users : c # NULL /\ ViewUser(p, u).couple_id = c}

\* mutant: the UPDATE also sets gender = NULL, onboarded = false
UnlinkResetUsersAndProfile(p) ==
  /\ pc[p] = "unlink_users"
  /\ \A u \in MemberRows(p, loc[p].coupleId) : ~UserLocked(p, u)
  /\ tx' = [tx EXCEPT ![p].users =
              [u \in Users |->
                 IF u \in MemberRows(p, loc[p].coupleId)
                   THEN [ViewUser(p, u) EXCEPT !.couple_id = NULL,
                                               !.gender = NullText,
                                               !.onboarded = FALSE]
                   ELSE tx[p].users[u]]]
  /\ pc' = [pc EXCEPT ![p] = "unlink_delete"]
  /\ UNCHANGED <<users, couples, nextId, req, loc, res, nreq, pre, log>>

\* lines 342-345: reset every member to solo
UnlinkResetUsers(p) ==
  /\ pc[p] = "unlink_users"
  /\ \A u \in MemberRows(p, loc[p].coupleId) : ~UserLocked(p, u)
  /\ tx' = [tx EXCEPT ![p].users =
              [u \in Users |->
                 IF u \in MemberRows(p, loc[p].coupleId)
                   THEN [ViewUser(p, u) EXCEPT !.couple_id = NULL]
                   ELSE tx[p].users[u]]]
  /\ pc' = [pc EXCEPT ![p] = "unlink_delete"]
  /\ UNCHANGED <<users, couples, nextId, req, loc, res, nreq, pre, log>>

\* line 348: DELETE FROM couples WHERE id = coupleId
UnlinkDeleteCouple(p) ==
  /\ pc[p] = "unlink_delete"
  /\ IF ViewCouple(p, loc[p].coupleId) # NoRow
       THEN /\ ~CoupleLocked(p, loc[p].coupleId)
            /\ tx' = WriteCouple(p, loc[p].coupleId, NoRow)
       ELSE tx' = tx
  /\ pc' = [pc EXCEPT ![p] = "unlink_commit"]
  /\ UNCHANGED <<users, couples, nextId, req, loc, res, nreq, pre, log>>

\* lines 350-351: COMMIT, 200
UnlinkCommit(p) ==
  /\ pc[p] = "unlink_commit"
  /\ CommitAndRespond(p, "Unlinked successfully. You are now in Solo Mode.")
  /\ UNCHANGED <<nextId, req, loc, nreq, pre>>

\* lines 352-354: a statement throws; ROLLBACK, 500
UnlinkCatch(p, rollbackThrows) ==
  /\ pc[p] \in {"unlink_user", "unlink_users", "unlink_delete"}
  /\ Catch(p, 500, "Failed to unlink.", rollbackThrows)
  /\ UNCHANGED <<nextId, req, loc, nreq, pre>>

\* --------------------------------------------- onboardCreator without an id
\* lines 83-87: req.user.id is falsy; 401 before pool.connect()
OnboardUnauthorized(p, limit, seq) ==
  /\ Admit(p, limit, seq)
  /\ req' = [req EXCEPT ![p] = [op |-> "onboardCreator", user |-> NULL,
                                profile |-> SentProfile, rel_status |-> "dating"]]
  /\ loc' = [loc EXCEPT ![p] = NoLoc]
  /\ log' = [log EXCEPT ![p] = <<"respond">>]
  /\ Respond(p, 401, "Your session has expired. Please log in again.")
  /\ UNCHANGED <<users, couples, nextId, tx>>

\* --------------------------------------------------- submitWelcomeAnswers
\* lines 362-368: pool.connect(), BEGIN
StartSubmitAnswers(p, u, answers, limit, seq) ==
  /\ Admit(p, limit, seq)
  /\ req' = [req EXCEPT ![p] = [op |-> "submitWelcomeAnswers", user |-> u,
                                answers |-> answers]]
  /\ loc' = [loc EXCEPT ![p] = NoLoc]
  /\ res' = [res EXCEPT ![p] = NoRes]
  /\ pc' = [pc EXCEPT ![p] = "ans_user"]
  /\ Begin(p)
  /\ UNCHANGED <<users, couples, nextId, tx>>

\* lines 370-376: SELECT couple_id FROM users; none: ROLLBACK and 400
AnswersSelectUser(p, rollbackThrows) ==
  /\ pc[p] = "ans_user"
  /\ IF ViewUser(p, req[p].user).couple_id = NULL
       THEN /\ Reject(p, 400, "No couple connection found", rollbackThrows)
            /\ UNCHANGED <<nextId, req, loc, nreq, pre>>
       ELSE /\ loc' = [loc EXCEPT ![p].coupleId = ViewUser(p, req[p].user).couple_id]
            /\ pc' = [pc EXCEPT ![p] = "ans_merge"]
            /\ UNCHANGED <<users, couples, nextId, req, tx, res, nreq, pre, log>>

\* mutant: the answers UPDATE goes through pool.query, outside the transaction
AnswersMergeOutsideTx(p) ==
  /\ pc[p] = "ans_merge"
  /\ IF couples[loc[p].coupleId] # NoRow
       THEN /\ ~CoupleLocked(p, loc[p].coupleId)
            /\ couples' = [couples EXCEPT ![loc[p].coupleId].answers =
                             Concat(Coalesce(@), AnswerObject(req[p].user, req[p].answers))]
       ELSE couples' = couples
  /\ pc' = [pc EXCEPT ![p] = "ans_onboard"]
  /\ UNCHANGED <<users, nextId, req, loc, tx, res, nreq, pre, log>>

\* mutant: the answers are merged into the row as read, without waiting for
\* the row lock of a concurrent writer
AnswersMergeUnlocked(p) ==
  /\ pc[p] = "ans_merge"
  /\ IF ViewCouple(p, loc[p].coupleId) # NoRow
       THEN tx' = WriteCouple(p, loc[p].coupleId,
                    [ViewCouple(p, loc[p].coupleId) EXCEPT
                       !.answers = Concat(Coalesce(@),
                                          AnswerObject(req[p].user, req[p].answers))])
       ELSE tx' = tx
  /\ pc' = [pc EXCEPT ![p] = "ans_onboard"]
  /\ UNCHANGED <<users, couples, nextId, req, loc, res, nreq, pre, log>>

\* lines 380-383: UPDATE couples SET answers = COALESCE(answers, '{}') || $1 WHERE id = $2
AnswersMerge(p) ==
  /\ pc[p] = "ans_merge"
  /\ IF ViewCouple(p, loc[p].coupleId) # NoRow
       THEN /\ ~CoupleLocked(p, loc[p].coupleId)
            /\ tx' = WriteCouple(p, loc[p].coupleId,
                       [ViewCouple(p, loc[p].coupleId) EXCEPT
                          !.answers = Concat(Coalesce(@),
                                             AnswerObject(req[p].user, req[p].answers))])
       ELSE tx' = tx
  /\ pc' = [pc EXCEPT ![p] = "ans_onboard"]
  /\ UNCHANGED <<users, couples, nextId, req, loc, res, nreq, pre, log>>

\* line 387: UPDATE users SET onboarded = true WHERE id = userId
AnswersSetOnboarded(p) ==
  /\ pc[p] = "ans_onboard"
  /\ ~UserLocked(p, req[p].user)
  /\ tx' = WriteUser(p, req[p].user, [ViewUser(p, req[p].user) EXCEPT !.onboarded = TRUE])
  /\ pc' = [pc EXCEPT ![p] = "ans_commit"]
  /\ UNCHANGED <<users, couples, nextId, req, loc, res, nreq, pre, log>>

\* lines 389-390: COMMIT, 200
AnswersCommit(p) ==
  /\ pc[p] = "ans_commit"
  /\ CommitAndRespond(p, "Answers saved!")
  /\ UNCHANGED <<nextId, req, loc, nreq, pre>>

\* lines 391-396: a statement throws; ROLLBACK, 500
AnswersCatch(p, rollbackThrows) ==
  /\ pc[p] \in {"ans_user", "ans_merge", "ans_onboard"}
  /\ Catch(p, 500, "Server failed to finalize onboarding", rollbackThrows)
  /\ UNCHANGED <<nextId, req, loc, nreq, pre>>

\* ---------------------------------------------------------- updateProfile
\* lines 650-656: pool.connect(), BEGIN
StartUpdateProfile(p, u, body, limit, seq) ==
  /\ Admit(p, limit, seq)
  /\ req' = [req EXCEPT ![p] = [op |-> "updateProfile", user |-> u, body |-> body]]
  /\ loc' = [loc EXCEPT ![p] = NoLoc]
  /\ res' = [res EXCEPT ![p] = NoRes]
  /\ pc' = [pc EXCEPT ![p] = "prof_user"]
  /\ Begin(p)
  /\ UNCHANGED <<users, couples, nextId, tx>>

\* COALESCE($1, column)
CoalesceText(sent, column) == IF sent # NullText THEN sent ELSE column

\* lines 659-668: UPDATE users SET nickname, avatar_id ... RETURNING couple_id,
\* and the test rel_status && couple_id
ProfileUpdateUser(p) ==
  /\ pc[p] = "prof_user"
  /\ ~UserLocked(p, req[p].user)
  /\ tx' = WriteUser(p, req[p].user,
                     [ViewUser(p, req[p].user) EXCEPT
                        !.nickname = CoalesceText(req[p].body.nickname, @),
                        !.avatar_id = CoalesceText(req[p].body.avatar_id, @)])
  /\ loc' = [loc EXCEPT ![p].coupleId = ViewUser(p, req[p].user).couple_id]
  /\ pc' = [pc EXCEPT ![p] =
              IF req[p].body.rel_status # NullText
                 /\ ViewUser(p, req[p].user).couple_id # NULL
                THEN "prof_couple" ELSE "prof_commit"]
  /\ UNCHANGED <<users, couples, nextId, req, res, nreq, pre, log>>

\* lines 669-672: UPDATE couples SET rel_status = $1 WHERE id = $2
ProfileUpdateCouple(p) ==
  /\ pc[p] = "prof_couple"
  /\ IF ViewCouple(p, loc[p].coupleId) # NoRow
       THEN /\ ~CoupleLocked(p, loc[p].coupleId)
            /\ tx' = WriteCouple(p, loc[p].coupleId,
                       [ViewCouple(p, loc[p].coupleId) EXCEPT
                          !.rel_status = req[p].body.rel_status])
       ELSE tx' = tx
  /\ pc' = [pc EXCEPT ![p] = "prof_commit"]
  /\ UNCHANGED <<users, couples, nextId, req, loc, res, nreq, pre, log>>

\* lines 675-676: COMMIT, 200
ProfileCommit(p) ==
  /\ pc[p] = "prof_commit"
  /\ CommitAndRespond(p, "Profile updated!")
  /\ UNCHANGED <<nextId, req, loc, nreq, pre>>

\* lines 677-682: a statement throws; ROLLBACK, 500
ProfileCatch(p, rollbackThrows) ==
  /\ pc[p] \in {"prof_user", "prof_couple"}
  /\ Catch(p, 500, "Failed to update", rollbackThrows)
  /\ UNCHANGED <<nextId, req, loc, nreq, pre>>

\* ---------------------------------------------------- upsertSharedPicture
\* res.status(...).json(...) inside try; finally dbClient.release()
RespondAndRelease(p, status, error) ==
  /\ Respond(p, status, error)
  /\ Log(p, <<"respond", "release">>)

\* line 413: pool.connect(); no BEGIN
StartUpsertPicture(p, u, file, limit, seq) ==
  /\ Admit(p, limit, seq)
  /\ req' = [req EXCEPT ![p] = [op |-> "upsertSharedPicture", user |-> u, file |-> file]]
  /\ loc' = [loc EXCEPT ![p] = NoLoc]
  /\ res' = [res EXCEPT ![p] = NoRes]
  /\ pc' = [pc EXCEPT ![p] = "pic_user"]
  /\ log' = [log EXCEPT ![p] = <<"connect">>]
  /\ UNCHANGED <<users, couples, nextId, tx>>

\* lines 417-425: no file: 400; SELECT couple_id FROM users; none: 400
PictureSelectUser(p) ==
  /\ pc[p] = "pic_user"
  /\ IF ~req[p].file
       THEN /\ RespondAndRelease(p, 400, "No image file provided.")
            /\ UNCHANGED <<users, couples, nextId, req, loc, tx, nreq, pre>>
       ELSE IF ViewUser(p, req[p].user).couple_id = NULL
       THEN /\ RespondAndRelease(p, 400,
                  "No pairing found. Please pair with a partner first.")
            /\ UNCHANGED <<users, couples, nextId, req, loc, tx, nreq, pre>>
       ELSE /\ loc' = [loc EXCEPT ![p].coupleId = ViewUser(p, req[p].user).couple_id]
            /\ pc' = [pc EXCEPT ![p] = "pic_upload"]
            /\ UNCHANGED <<users, couples, nextId, req, tx, res, nreq, pre, log>>

\* lines 428-444: sharp compresses, cloudinary stores the image under couple_<id>
PictureUpload(p) ==
  /\ pc[p] = "pic_upload"
  /\ pc' = [pc EXCEPT ![p] = "pic_update"]
  /\ UNCHANGED <<users, couples, nextId, req, loc, tx, res, nreq, pre, log>>

\* lines 447-456: UPDATE couples SET shared_image_url = $1 WHERE id = $2, on its
\* own (no transaction is open), then 200
PictureUpdateCouple(p) ==
  /\ pc[p] = "pic_update"
  /\ IF couples[loc[p].coupleId] # NoRow
       THEN /\ ~CoupleLocked(p, loc[p].coupleId)
            /\ couples' = [couples EXCEPT ![loc[p].coupleId].shared_image_url = SecureUrl]
       ELSE couples' = couples
  /\ RespondAndRelease(p, 200, "Shared picture synced successfully!")
  /\ UNCHANGED <<users, nextId, req, loc, tx, nreq, pre>>

\* lines 458-464: the SELECT, sharp, the upload or the UPDATE throws; 500
PictureCatch(p) ==
  /\ pc[p] \in {"pic_user", "pic_upload", "pic_update"}
  /\ RespondAndRelease(p, 500, "Failed to sync image. Please try again.")
  /\ UNCHANGED <<users, couples, nextId, req, loc, tx, nreq, pre>>

\* lines 438-444 and 458-461: cloudinary.uploader.upload rejects; catch: 500
PictureUploadFails(p) ==
  /\ pc[p] = "pic_upload"
  /\ Respond(p, 500, "Failed to sync image. Please try again.")
  /\ Log(p, <<"gateway failed", "respond", "release">>)
  /\ UNCHANGED <<users, couples, nextId, req, loc, tx, nreq, pre>>

\* ---------------------------------------------------- deleteSharedPicture
\* line 466: no connection is held; every statement goes through pool.query
StartDeletePicture(p, u, limit, seq) ==
  /\ Admit(p, limit, seq)
  /\ req' = [req EXCEPT ![p] = [op |-> "deleteSharedPicture", user |-> u]]
  /\ loc' = [loc EXCEPT ![p] = NoLoc]
  /\ res' = [res EXCEPT ![p] = NoRes]
  /\ pc' = [pc EXCEPT ![p] = "del_user"]
  /\ log' = [log EXCEPT ![p] = <<>>]
  /\ UNCHANGED <<users, couples, nextId, tx>>

\* lines 468-471: SELECT couple_id FROM users; none: 400
DeleteSelectUser(p) ==
  /\ pc[p] = "del_user"
  /\ IF ViewUser(p, req[p].user).couple_id = NULL
       THEN /\ Respond(p, 400, "No couple found")
            /\ Log(p, <<"respond">>)
            /\ UNCHANGED <<users, couples, nextId, req, loc, tx, nreq, pre>>
       ELSE /\ loc' = [loc EXCEPT ![p].coupleId = ViewUser(p, req[p].user).couple_id]
            /\ pc' = [pc EXCEPT ![p] = "del_destroy"]
            /\ UNCHANGED <<users, couples, nextId, req, tx, res, nreq, pre, log>>

\* line 474: cloudinary.uploader.destroy removes the image stored under couple_<id>
DeleteDestroy(p) ==
  /\ pc[p] = "del_destroy"
  /\ pc' = [pc EXCEPT ![p] = "del_update"]
  /\ UNCHANGED <<users, couples, nextId, req, loc, tx, res, nreq, pre, log>>

\* mutant: the column is cleared before the image is removed from the gateway
DeleteDestroyFailsAfterUpdate(p) ==
  /\ pc[p] = "del_destroy"
  /\ IF couples[loc[p].coupleId] # NoRow
       THEN couples' = [couples EXCEPT ![loc[p].coupleId].shared_image_url = NullText]
       ELSE couples' = couples
  /\ Respond(p, 500, "Delete failed")
  /\ Log(p, <<"gateway failed", "respond">>)
  /\ UNCHANGED <<users, nextId, req, loc, tx, nreq, pre>>

\* lines 474 and 480-482: cloudinary.uploader.destroy rejects; catch: 500
DeleteDestroyFails(p) ==
  /\ pc[p] = "del_destroy"
  /\ Respond(p, 500, "Delete failed")
  /\ Log(p, <<"gateway failed", "respond">>)
  /\ UNCHANGED <<users, couples, nextId, req, loc, tx, nreq, pre>>

\* lines 477-479: UPDATE couples SET shared_image_url = NULL WHERE id = $1, then 200
DeleteUpdateCouple(p) ==
  /\ pc[p] = "del_update"
  /\ IF couples[loc[p].coupleId] # NoRow
       THEN /\ ~CoupleLocked(p, loc[p].coupleId)
            /\ couples' = [couples EXCEPT ![loc[p].coupleId].shared_image_url = NullText]
       ELSE couples' = couples
  /\ Respond(p, 200, "Shared photo removed!")
  /\ Log(p, <<"respond">>)
  /\ UNCHANGED <<users, nextId, req, loc, tx, nreq, pre>>

\* lines 480-482: the SELECT or the UPDATE throws; 500
DeleteCatch(p) ==
  /\ pc[p] \in {"del_user", "del_update"}
  /\ Respond(p, 500, "Delete failed")
  /\ Log(p, <<"respond">>)
  /\ UNCHANGED <<users, couples, nextId, req, loc, tx, nreq, pre>>

\* ------------------------------------------ getInvitePreview (PreviewInvite)
\* mutant: the preview query filters on status = 'waiting' as pairCouple does
PreviewRowsWaiting(code) ==
  {c \in CoupleIds :
     /\ couples[c] # NoRow
     /\ couples[c].creator_id \in Users
     /\ NormalizeColumn(couples[c].invite_code) = NormalizeInput(code)
     /\ couples[c].status = "waiting"}

\* the rows of: SELECT ... FROM couples c INNER JOIN users u ON c.creator_id = u.id
\*              WHERE TRIM(UPPER(c.invite_code)) = $1
PreviewRows(code) ==
  {c \in CoupleIds :
     /\ couples[c] # NoRow
     /\ couples[c].creator_id \in Users
     /\ NormalizeColumn(couples[c].invite_code) = NormalizeInput(code)}

\* the columns the query selects
PreviewRow(c) ==
  [nickname |-> users[couples[c].creator_id].nickname,
   avatar_id |-> users[couples[c].creator_id].avatar_id,
   rel_status |-> couples[c].rel_status,
   status |-> couples[c].status]

\* lines 225-262: one pool.query and the answer; rows[0] is whichever row the
\* database returns first
GetInvitePreview(p, code, limit, seq) ==
  /\ Admit(p, limit, seq)
  /\ req' = [req EXCEPT ![p] = [op |-> "getInvitePreview", user |-> NULL, code |-> code]]
  /\ log' = [log EXCEPT ![p] = <<"respond">>]
  /\ \/ /\ PreviewRows(code) = {}
        /\ loc' = [loc EXCEPT ![p] = NoLoc]
        /\ Respond(p, 404,
             "Invite not found. Check if the creator still exists or if the code is correct.")
     \/ \E c \in PreviewRows(code) :
          /\ loc' = [loc EXCEPT ![p] = [NoLoc EXCEPT !.invite = PreviewRow(c)]]
          /\ IF PreviewRow(c).status # "waiting"
               THEN Respond(p, 400, "This invite has already been used by someone else.")
               ELSE Respond(p, 200, "is waiting for you to join!")
     \/ /\ loc' = [loc EXCEPT ![p] = NoLoc]      \* the query throws
        /\ Respond(p, 500, "Error fetching invite preview")
  /\ UNCHANGED <<users, couples, nextId, tx>>

\* ------------------------------------------- getMe, getDashboard (GetStatus)
\* the row of: SELECT u.couple_id, c.status as couple_status, ...
\*             FROM users u LEFT JOIN couples c ON u.couple_id = c.id WHERE u.id = $1
StatusRow(p, u) ==
  LET c == ViewUser(p, u).couple_id
  IN [couple_id |-> c,
      couple_status |-> IF ViewCouple(p, c) # NoRow THEN ViewCouple(p, c).status
                        ELSE NullText]

\* mode: couple_id ? (couple_status === 'full' ? 'couple' : 'waiting') : 'solo'
Mode(row) ==
  IF row.couple_id # NULL
    THEN (IF row.couple_status = "full" THEN "couple" ELSE "waiting")
    ELSE "solo"

\* lines 486-487: the request is in, the query not yet sent
StartGetMe(p, u, limit, seq) ==
  /\ Admit(p, limit, seq)
  /\ req' = [req EXCEPT ![p] = [op |-> "getMe", user |-> u]]
  /\ loc' = [loc EXCEPT ![p] = NoLoc]
  /\ res' = [res EXCEPT ![p] = NoRes]
  /\ pc' = [pc EXCEPT ![p] = "me_query"]
  /\ log' = [log EXCEPT ![p] = <<>>]
  /\ UNCHANGED <<users, couples, nextId, tx>>

\* lines 490-524: one pool.query; no row: 404; the mode; the query throws: 500
GetMeQuery(p, throws) ==
  /\ pc[p] = "me_query"
  /\ IF throws
       THEN Respond(p, 500, "Failed to fetch user data") /\ UNCHANGED loc
       ELSE IF ViewUser(p, req[p].user) = NoRow
       THEN Respond(p, 404, "User not found") /\ UNCHANGED loc
       ELSE /\ loc' = [loc EXCEPT ![p].mode = Mode(StatusRow(p, req[p].user))]
            /\ Respond(p, 200, NullText)
  /\ Log(p, <<"respond">>)
  /\ UNCHANGED <<users, couples, nextId, req, tx, nreq, pre>>

\* lines 264-265: the request is in, the query not yet sent
StartGetDashboard(p, u, limit, seq) ==
  /\ Admit(p, limit, seq)
  /\ req' = [req EXCEPT ![p] = [op |-> "getDashboard", user |-> u]]
  /\ loc' = [loc EXCEPT ![p] = NoLoc]
  /\ res' = [res EXCEPT ![p] = NoRes]
  /\ pc' = [pc EXCEPT ![p] = "dash_query"]
  /\ log' = [log EXCEPT ![p] = <<>>]
  /\ UNCHANGED <<users, couples, nextId, tx>>

\* lines 268-292: one pool.query; rows[0] undefined makes user.id throw, and a
\* throw is answered 500; otherwise the mode and partner: null
GetDashboardQuery(p, throws) ==
  /\ pc[p] = "dash_query"
  /\ IF throws \/ ViewUser(p, req[p].user) = NoRow
       THEN Respond(p, 500, "Internal Server Error") /\ UNCHANGED loc
       ELSE /\ loc' = [loc EXCEPT ![p].mode = Mode(StatusRow(p, req[p].user)),
                                  ![p].partner = NULL]
            /\ Respond(p, 200, NullText)
  /\ Log(p, <<"respond">>)
  /\ UNCHANGED <<users, couples, nextId, req, tx, nreq, pre>>

\* ------------------------------------------------------ getDashboardDetails
\* the users p of: LEFT JOIN users p ON (c.partner_id = p.id OR c.creator_id = p.id)
\*                  AND p.id != $1
PartnerRows(p, u, c) ==
  {x \in Users : /\ ViewUser(p, x) # NoRow
                 /\ x # u
                 /\ (ViewCouple(p, c).partner_id = x \/ ViewCouple(p, c).creator_id = x)}

\* lines 295-296: the request is in, the query not yet sent
StartGetDashboardDetails(p, u, limit, seq) ==
  /\ Admit(p, limit, seq)
  /\ req' = [req EXCEPT ![p] = [op |-> "getDashboardDetails", user |-> u]]
  /\ loc' = [loc EXCEPT ![p] = NoLoc]
  /\ res' = [res EXCEPT ![p] = NoRes]
  /\ pc' = [pc EXCEPT ![p] = "details_query"]
  /\ log' = [log EXCEPT ![p] = <<>>]
  /\ UNCHANGED <<users, couples, nextId, tx>>

\* lines 298-322: one pool.query; no row (no user, or no couple to JOIN): 404;
\* rows[0] is whichever row the database returns first, its partner columns
\* NULL when the LEFT JOIN matched nobody; the query throws: 500
GetDashboardDetailsQuery(p, throws) ==
  /\ pc[p] = "details_query"
  /\ LET u == req[p].user
         c == ViewUser(p, u).couple_id
     IN IF throws
          THEN Respond(p, 500, "Error fetching dashboard details") /\ UNCHANGED loc
          ELSE IF ViewUser(p, u) = NoRow \/ ViewCouple(p, c) = NoRow
          THEN Respond(p, 404, "No dashboard data") /\ UNCHANGED loc
          ELSE /\ Respond(p, 200, NullText)
               /\ IF PartnerRows(p, u, c) = {}
                    THEN loc' = [loc EXCEPT ![p].coupleId = c, ![p].partner = NULL]
                    ELSE \E x \in PartnerRows(p, u, c) :
                           loc' = [loc EXCEPT ![p].coupleId = c, ![p].partner = x]
  /\ Log(p, <<"respond">>)
  /\ UNCHANGED <<users, couples, nextId, req, tx, nreq, pre>>

\* ---------------------------------------------------------- specifications
\* whether an awaited ROLLBACK throws; followed where requests are handled one
\* at a time
RollbackThrows(seq) == IF seq THEN BOOLEAN ELSE {FALSE}

\* one step of connection p
Step(p, limit, seq) ==
  \/ \E u \in Users, profile \in Profiles, rel \in RelStatuses :
       StartOnboard(p, u, profile, rel, limit, seq)
  \/ OnboardUpdateUser(p)
  \/ \E r \in RandomBase36, rb \in RollbackThrows(seq) : OnboardInsertCouple(p, r, rb)
  \/ OnboardLinkUser(p)
  \/ OnboardCommit(p)
  \/ \E code \in ThrowCodes, rb \in RollbackThrows(seq) : OnboardCatch(p, code, rb)
  \/ \E u \in Users, code \in PairCodes, profile \in Profiles :
       StartPair(p, u, code, profile, limit, seq)
  \/ PairSelectUser(p)
  \/ \E rb \in RollbackThrows(seq) : PairSelectTarget(p, rb)
  \/ PairCleanup(p)
  \/ PairLinkUser(p)
  \/ PairFinalize(p)
  \/ PairCommit(p)
  \/ \E rb \in RollbackThrows(seq) : PairCatch(p, rb)
  \/ \E u \in Users : StartUnlink(p, u, limit, seq)
  \/ \E rb \in RollbackThrows(seq) : UnlinkSelectUser(p, rb)
  \/ UnlinkResetUsers(p)
  \/ UnlinkDeleteCouple(p)
  \/ UnlinkCommit(p)
  \/ \E rb \in RollbackThrows(seq) : UnlinkCatch(p, rb)

\* requests handled one at a time: every call commits or rolls back before the next
SeqNext == \E p \in SeqProcs : Step(p, MaxSeqRequests, TRUE)
SeqSpec == Init /\ [][SeqNext]_vars

\* requests handled concurrently, their statements interleaved
Next == \E p \in Procs : Step(p, MaxRequests, FALSE)
Spec == Init /\ [][Next]_vars

\* the same, with room for a call that sets up what two concurrent calls race for
RaceNext == \E p \in Procs : Step(p, MaxRaceRequests, FALSE)
RaceSpec == Init /\ [][RaceNext]_vars

\* requests handled one at a time, previews among them
QueryNext ==
  \/ SeqNext
  \/ \E p \in SeqProcs, code \in PairCodes :
       GetInvitePreview(p, code, MaxSeqRequests, TRUE)
QuerySpec == Init /\ [][QueryNext]_vars

\* every transactional handler, one request at a time, also with a missing or
\* empty invite code, without a session, and for the deleted account
HandlerNext ==
  \E p \in SeqProcs :
    \/ Step(p, MaxHandlerRequests, TRUE)
    \/ OnboardUnauthorized(p, MaxHandlerRequests, TRUE)
    \/ \E profile \in Profiles, rel \in RelStatuses :
         StartOnboard(p, DeletedUser, profile, rel, MaxHandlerRequests, TRUE)
    \/ \E u \in Users, code \in BadPairCodes, profile \in Profiles :
         StartPair(p, u, code, profile, MaxHandlerRequests, TRUE)
    \/ \E u \in Users, code \in PairCodes :
         StartPair(p, u, code, NoProfile, MaxHandlerRequests, TRUE)
    \/ \E u \in Users, answers \in AnswerSets :
         StartSubmitAnswers(p, u, answers, MaxHandlerRequests, TRUE)
    \/ \E rb \in BOOLEAN : AnswersSelectUser(p, rb)
    \/ AnswersMerge(p)
    \/ AnswersSetOnboarded(p)
    \/ AnswersCommit(p)
    \/ \E rb \in BOOLEAN : AnswersCatch(p, rb)
    \/ \E u \in Users, body \in ProfileUpdates :
         StartUpdateProfile(p, u, body, MaxHandlerRequests, TRUE)
    \/ ProfileUpdateUser(p)
    \/ ProfileUpdateCouple(p)
    \/ ProfileCommit(p)
    \/ \E rb \in BOOLEAN : ProfileCatch(p, rb)
    \/ \E u \in Users, file \in BOOLEAN :
         StartUpsertPicture(p, u, file, MaxHandlerRequests, TRUE)
    \/ PictureSelectUser(p)
    \/ PictureUpload(p)
    \/ PictureUpdateCouple(p)
    \/ PictureCatch(p)
HandlerSpec == Init /\ [][HandlerNext]_vars

\* the shared-picture handlers, one request at a time, after onboardings that
\* give their callers a couple
MediaNext ==
  \E p \in SeqProcs :
    \/ \E u \in Users, profile \in Profiles, rel \in RelStatuses :
         StartOnboard(p, u, profile, rel, MaxMediaRequests, TRUE)
    \/ OnboardUpdateUser(p)
    \/ \E r \in RandomBase36, rb \in BOOLEAN : OnboardInsertCouple(p, r, rb)
    \/ OnboardLinkUser(p)
    \/ OnboardCommit(p)
    \/ \E code \in ThrowCodes, rb \in BOOLEAN : OnboardCatch(p, code, rb)
    \/ \E u \in Users, file \in BOOLEAN :
         StartUpsertPicture(p, u, file, MaxMediaRequests, TRUE)
    \/ PictureSelectUser(p)
    \/ PictureUpload(p)
    \/ PictureUploadFails(p)
    \/ PictureUpdateCouple(p)
    \/ PictureCatch(p)
    \/ \E u \in Users : StartDeletePicture(p, u, MaxMediaRequests, TRUE)
    \/ DeleteSelectUser(p)
    \/ DeleteDestroy(p)
    \/ DeleteDestroyFails(p)
    \/ DeleteUpdateCouple(p)
    \/ DeleteCatch(p)
MediaSpec == Init /\ [][MediaNext]_vars

\* the status and dashboard queries, concurrently with the calls of one
\* creator (user 1 onboards and unlinks) and one joiner (user 2 pairs)
StatusNext ==
  \E p \in Procs :
    \/ \E profile \in Profiles, rel \in RelStatuses :
         StartOnboard(p, 1, profile, rel, MaxStatusRequests, FALSE)
    \/ OnboardUpdateUser(p)
    \/ \E r \in RandomBase36 : OnboardInsertCouple(p, r, FALSE)
    \/ OnboardLinkUser(p)
    \/ OnboardCommit(p)
    \/ \E profile \in Profiles :
         StartPair(p, 2, <<" ", "a", "7", " ">>, profile, MaxStatusRequests, FALSE)
    \/ PairSelectUser(p)
    \/ PairSelectTarget(p, FALSE)
    \/ PairCleanup(p)
    \/ PairLinkUser(p)
    \/ PairFinalize(p)
    \/ PairCommit(p)
    \/ StartUnlink(p, 1, MaxStatusRequests, FALSE)
    \/ UnlinkSelectUser(p, FALSE)
    \/ UnlinkResetUsers(p)
    \/ UnlinkDeleteCouple(p)
    \/ UnlinkCommit(p)
    \/ \E u \in Users \cup {DeletedUser} : StartGetMe(p, u, MaxStatusRequests, FALSE)
    \/ \E throws \in BOOLEAN : GetMeQuery(p, throws)
    \/ \E u \in Users \cup {DeletedUser} : StartGetDashboard(p, u, MaxStatusRequests, FALSE)
    \/ \E throws \in BOOLEAN : GetDashboardQuery(p, throws)
    \/ \E u \in Users \cup {DeletedUser} :
         StartGetDashboardDetails(p, u, MaxStatusRequests, FALSE)
    \/ \E throws \in BOOLEAN : GetDashboardDetailsQuery(p, throws)
StatusSpec == Init /\ [][StatusNext]_vars

\* the rows after user 1 has onboarded (invite code A7) and user 2 has paired
\* with that code: one full couple, nobody has answered yet
PairedUsers ==
  [u \in Users |->
     IF u = 1 THEN [couple_id |-> 1, nickname |-> "nick", avatar_id |-> "av1",
                    gender |-> "f", onboarded |-> TRUE]
     ELSE IF u = 2 THEN [couple_id |-> 1, nickname |-> "nick", avatar_id |-> "av1",
                         gender |-> NullText, onboarded |-> FALSE]
     ELSE NewUser]
PairedCouples ==
  [c \in CoupleIds |->
     IF c = 1 THEN [answers |-> NullJson, rel_status |-> "dating", status |-> "full",
                    invite_code |-> <<"A", "7">>, creator_id |-> 1, partner_id |-> 2,
                    shared_image_url |-> NullText]
     ELSE NoRow]
PairedInit ==
  /\ users = PairedUsers
  /\ couples = PairedCouples
  /\ nextId = 2
  /\ pc = [p \in Procs |-> "idle"]
  /\ req = [p \in Procs |-> NoReq]
  /\ loc = [p \in Procs |-> NoLoc]
  /\ tx = [p \in Procs |-> NoTx]
  /\ res = [p \in Procs |-> NoRes]
  /\ nreq = 0
  /\ pre = [users |-> users, couples |-> couples]
  /\ log = [p \in Procs |-> <<>>]

\* submitWelcomeAnswers calls handled concurrently, against the paired couple
AnswersNext ==
  \E p \in Procs :
    \/ \E u \in Users, answers \in AnswerSets :
         StartSubmitAnswers(p, u, answers, MaxAnswersRequests, FALSE)
    \/ AnswersSelectUser(p, FALSE)
    \/ AnswersMerge(p)
    \/ AnswersSetOnboarded(p)
    \/ AnswersCommit(p)
    \/ AnswersCatch(p, FALSE)
AnswersSpec == PairedInit /\ [][AnswersNext]_vars

\* =================================================================== claims
Done(p, op) == pc[p] = "done" /\ req[p].op = op
Succeeded(p, op) == Done(p, op) /\ res[p].status = 200

\* the users rows attached to couple c
Members(c) == {u \in Users : users[u].couple_id = c}
PreMembers(c) == {u \in Users : pre.users[u].couple_id = c}
Exists(c) == couples[c] # NoRow

\* C1 (race safety): two joiners never both succeed in pairing into the same
\* couple; of two Pair calls against one waiting code, at most one gets 200.
C1_RaceSafety ==
  \A p, q \in Procs :
    (/\ p # q
     /\ Succeeded(p, "pairCouple")
     /\ Succeeded(q, "pairCouple")
     /\ req[p].user # req[q].user
     /\ loc[p].targetCreator \notin {req[p].user, req[q].user})
    => loc[p].newCoupleId # loc[q].newCoupleId

\* C2 (symmetry invariant): every full couple has exactly two attached users.
C2_Symmetry ==
  \A c \in CoupleIds :
    (Exists(c) /\ couples[c].status = "full") => Cardinality(Members(c)) = 2

\* C3 (self-pair rejection): a Pair whose lookup found a couple created by the
\* caller does not succeed, and leaves every users and couples row as it was.
C3_SelfPairRejected ==
  \A p \in SeqProcs :
    (/\ Done(p, "pairCouple")
     /\ loc[p].newCoupleId # NULL
     /\ loc[p].targetCreator = req[p].user)
    => /\ res[p].status # 200
       /\ users = pre.users
       /\ couples = pre.couples

\* C4 (Pair atomicity): a Pair that fails after the target-couple lookup
\* leaves every users row and every couples row equal to its pre-call value.
C4_PairAtomicity ==
  \A p \in SeqProcs :
    (/\ Done(p, "pairCouple")
     /\ loc[p].newCoupleId # NULL
     /\ res[p].status # 200)
    => /\ users = pre.users
       /\ couples = pre.couples

\* a Pair failed after the lookup, with a ghost couple of the joiner to delete
C4_Witness ==
  \E p \in SeqProcs :
    /\ Done(p, "pairCouple")
    /\ res[p].status = 500
    /\ loc[p].newCoupleId # NULL
    /\ loc[p].oldCoupleId # NULL
    /\ loc[p].oldCoupleId # loc[p].newCoupleId
    /\ Exists(loc[p].oldCoupleId)
    /\ couples[loc[p].oldCoupleId].creator_id = req[p].user
    /\ couples[loc[p].oldCoupleId].status = "waiting"

\* the case of C5: the joiner was the creator of waiting couple a, attached to
\* it alone, and paired into couple b created by someone else
GhostCase(p, a, b) ==
  /\ Succeeded(p, "pairCouple")
  /\ a = pre.users[req[p].user].couple_id
  /\ b = loc[p].newCoupleId
  /\ a # b
  /\ pre.couples[a] # NoRow
  /\ pre.couples[a].status = "waiting"
  /\ pre.couples[a].creator_id = req[p].user
  /\ PreMembers(a) = {req[p].user}
  /\ pre.couples[b].creator_id # req[p].user

\* C5 (ghost cleanup): after such a Pair commits, couple a no longer exists and
\* the joiner's couple_id is b.
C5_GhostCleanup ==
  \A p \in SeqProcs : \A a, b \in CoupleIds :
    GhostCase(p, a, b) => /\ ~Exists(a)
                          /\ users[req[p].user].couple_id = b

C5_Witness ==
  \E p \in SeqProcs : \E a, b \in CoupleIds : GhostCase(p, a, b)

\* C6 (Pair postcondition): after a successful Pair the target couple is full
\* with partner_id = joiner, and the joiner and the couple's creator both have
\* couple_id = the target couple.
C6_PairPostcondition ==
  \A p \in SeqProcs :
    Succeeded(p, "pairCouple") =>
      LET c == loc[p].newCoupleId IN
      /\ Exists(c)
      /\ couples[c].status = "full"
      /\ couples[c].partner_id = req[p].user
      /\ users[req[p].user].couple_id = c
      /\ users[couples[c].creator_id].couple_id = c

\* C7 (waiting-couple invariant): every waiting couple has exactly one attached
\* user, its creator.
C7_WaitingHasCreator ==
  \A c \in CoupleIds :
    (Exists(c) /\ couples[c].status = "waiting") => Members(c) = {couples[c].creator_id}

\* C8 (role exclusivity): no user is creator_id of one existing couple and
\* partner_id of a different existing couple.
C8_RoleExclusivity ==
  \A c, d \in CoupleIds :
    (c # d /\ Exists(c) /\ Exists(d)) => couples[c].creator_id # couples[d].partner_id

\* C9 (invite-code uniqueness): no two waiting couples have the same
\* case-normalized invite code.
C9_CodeUniqueness ==
  \A c, d \in CoupleIds :
    (/\ c # d
     /\ Exists(c) /\ couples[c].status = "waiting"
     /\ Exists(d) /\ couples[d].status = "waiting")
    => NormalizeColumn(couples[c].invite_code) # NormalizeColumn(couples[d].invite_code)

\* the generator returned the code of a couple that is still waiting, and the
\* INSERT was refused
C9_Witness ==
  \E p \in Procs : \E c \in CoupleIds :
    /\ Done(p, "onboardCreator")
    /\ res[p] = HandleAuthError("23505", "")
    /\ Exists(c)
    /\ couples[c].status = "waiting"

\* the case of C10: the caller was attached to full couple c together with
\* the other member of c
UnlinkCase(p, c) ==
  /\ Succeeded(p, "unlinkCouple")
  /\ c = pre.users[req[p].user].couple_id
  /\ pre.couples[c] # NoRow
  /\ pre.couples[c].status = "full"

\* C10 (unlink symmetry): after a successful Unlink of full couple c, the couple
\* row is gone and every user row that referenced c has couple_id NULL.
C10_UnlinkSymmetry ==
  \A p \in SeqProcs : \A c \in CoupleIds :
    UnlinkCase(p, c) => /\ ~Exists(c)
                        /\ \A u \in PreMembers(c) : users[u].couple_id = NULL
                        /\ users[req[p].user].couple_id = NULL

\* ... reached with the creator and the partner both attached
C10_Witness ==
  \E p \in SeqProcs : \E c \in CoupleIds :
    /\ UnlinkCase(p, c)
    /\ pre.couples[c].creator_id # pre.couples[c].partner_id
    /\ PreMembers(c) = {pre.couples[c].creator_id, pre.couples[c].partner_id}

\* C11 (CreateInvite atomicity): a finished onboardCreator either answered 200
\* with the profile applied, a new waiting couple of the caller inserted and
\* the caller attached to it, or left every users and couples row as it was.
C11_OnboardAtomicity ==
  \A p \in SeqProcs :
    Done(p, "onboardCreator") =>
      LET u == req[p].user
          c == loc[p].coupleId
      IN IF res[p].status = 200
           THEN /\ users = [pre.users EXCEPT ![u] =
                              [couple_id |-> c,
                               nickname |-> req[p].profile.nickname,
                               avatar_id |-> req[p].profile.avatar_id,
                               gender |-> req[p].profile.gender,
                               onboarded |-> TRUE]]
                /\ pre.couples[c] = NoRow
                /\ Exists(c)
                /\ couples[c].status = "waiting"
                /\ couples[c].creator_id = u
                /\ couples[c].invite_code = loc[p].inviteCode
                /\ \A d \in CoupleIds \ {c} : couples[d] = pre.couples[d]
           ELSE /\ users = pre.users
                /\ couples = pre.couples

\* a first onboarding failed after the couple row was inserted
C11_Witness ==
  \E p \in SeqProcs :
    /\ Done(p, "onboardCreator")
    /\ res[p].status = 500
    /\ loc[p].coupleId # NULL
    /\ ~pre.users[req[p].user].onboarded

\* the waiting couples a code finds among the rows the request began with
PreTargets(code) ==
  {c \in CoupleIds :
     /\ pre.couples[c] # NoRow
     /\ NormalizeColumn(pre.couples[c].invite_code) = NormalizeInput(code)
     /\ pre.couples[c].status = "waiting"}

\* C17 (Pair with an invalid code): a Pair whose code finds no waiting couple
\* does not succeed and changes no row; unless a statement threw, its answer
\* is 400 "Invalid or expired invite code."
C17_InvalidCode ==
  \A p \in SeqProcs :
    (Done(p, "pairCouple") /\ PreTargets(req[p].inviteCode) = {})
    => /\ res[p].status # 200
       /\ users = pre.users
       /\ couples = pre.couples
       /\ res[p].status \notin {NULL, 500}
            => res[p] = [status |-> 400, error |-> "Invalid or expired invite code."]

\* the code is that of a full couple, and the joiner has a waiting couple of
\* their own, which is still there
C17_Witness ==
  \E p \in SeqProcs : \E c, d \in CoupleIds :
    /\ Done(p, "pairCouple")
    /\ res[p] = [status |-> 400, error |-> "Invalid or expired invite code."]
    /\ Exists(c)
    /\ couples[c].status = "full"
    /\ NormalizeColumn(couples[c].invite_code) = NormalizeInput(req[p].inviteCode)
    /\ pre.users[req[p].user].couple_id = d
    /\ Exists(d)
    /\ couples[d].status = "waiting"
    /\ couples[d].creator_id = req[p].user

\* C19 (Unlink when not paired): an Unlink by a user whose couple_id is null
\* does not succeed and changes no row; unless a statement threw, its answer
\* is 400 "Not in a relationship."
C19_UnlinkNotPaired ==
  \A p \in SeqProcs :
    (Done(p, "unlinkCouple") /\ pre.users[req[p].user].couple_id = NULL)
    => /\ res[p].status # 200
       /\ users = pre.users
       /\ couples = pre.couples
       /\ res[p].status \notin {NULL, 500}
            => res[p] = [status |-> 400, error |-> "Not in a relationship."]

\* the caller had been in a couple before, and another couple exists
C19_Witness ==
  \E p \in SeqProcs : \E c \in CoupleIds :
    /\ Done(p, "unlinkCouple")
    /\ res[p] = [status |-> 400, error |-> "Not in a relationship."]
    /\ pre.users[req[p].user].onboarded
    /\ Exists(c)

\* C20 (Unlink frame): after a successful Unlink every user that referenced
\* the caller's couple differs from before in couple_id only, every other
\* users row is unchanged, and the couples rows are the former ones without
\* that couple.
C20_UnlinkFrame ==
  \A p \in SeqProcs :
    Succeeded(p, "unlinkCouple") =>
      LET c == pre.users[req[p].user].couple_id IN
      /\ \A v \in Users :
           users[v] = IF pre.users[v].couple_id = c
                        THEN [pre.users[v] EXCEPT !.couple_id = NULL]
                        ELSE pre.users[v]
      /\ \A d \in CoupleIds :
           couples[d] = IF d = c THEN NoRow ELSE pre.couples[d]

\* a full couple of two onboarded users was unlinked while a third user had a
\* couple of their own
C20_Witness ==
  \E p \in SeqProcs : \E c, d \in CoupleIds : \E v \in Users :
    /\ UnlinkCase(p, c)
    /\ Cardinality(PreMembers(c)) = 2
    /\ \A u \in PreMembers(c) : pre.users[u].nickname # NullText
    /\ d # c
    /\ Exists(d)
    /\ v \notin PreMembers(c)
    /\ users[v].couple_id = d

\* the couples that carry a code, trimmed and case-insensitive
WithCode(code) ==
  {c \in CoupleIds :
     Exists(c) /\ NormalizeColumn(couples[c].invite_code) = NormalizeInput(code)}
WaitingWithCode(code) == {c \in WithCode(code) : couples[c].status = "waiting"}

AlreadyUsed == [status |-> 400, error |-> "This invite has already been used by someone else."]

\* C12 (PreviewInvite failure modes): a preview whose query did not throw
\* answers not-found exactly when no couple has the code, 'already used' when
\* couples have it but none is waiting, and the creator preview whenever a
\* waiting couple has it.
C12_PreviewOutcomes ==
  \A p \in SeqProcs :
    (Done(p, "getInvitePreview") /\ res[p].status # 500) =>
      /\ res[p].status = 404 <=> WithCode(req[p].code) = {}
      /\ (WithCode(req[p].code) # {} /\ WaitingWithCode(req[p].code) = {})
           => res[p] = AlreadyUsed
      /\ WaitingWithCode(req[p].code) # {} => res[p].status = 200

\* C13 (idempotent preview), as stated: while a full couple has the code, a
\* preview of it whose query did not throw answers 'already used', and changes
\* no row.
C13_FullNeverPreviews ==
  \A p \in SeqProcs :
    (/\ Done(p, "getInvitePreview")
     /\ res[p].status # 500
     /\ \E c \in WithCode(req[p].code) : couples[c].status = "full")
    => /\ res[p] = AlreadyUsed
       /\ users = pre.users
       /\ couples = pre.couples

\* C13, amended: while a full couple whose creator has a users row has the
\* code and no waiting couple has it too, a preview of the code whose query
\* did not throw answers 'already used', and changes no row.
C13_FullNeverPreviewsUnlessReused ==
  \A p \in SeqProcs :
    (/\ Done(p, "getInvitePreview")
     /\ res[p].status # 500
     /\ \E c \in WithCode(req[p].code) :
          couples[c].status = "full" /\ couples[c].creator_id \in Users
     /\ WaitingWithCode(req[p].code) = {})
    => /\ res[p] = AlreadyUsed
       /\ users = pre.users
       /\ couples = pre.couples

\* the code of a full couple was previewed twice in a row
C13_Witness ==
  \E p \in SeqProcs :
    /\ Done(p, "getInvitePreview")
    /\ res[p] = AlreadyUsed
    /\ \E c \in WithCode(req[p].code) : couples[c].status = "full"
    /\ WaitingWithCode(req[p].code) = {}
    /\ nreq >= 4

\* where the events es stand in a request's log
Positions(l, es) == {i \in 1..Len(l) : l[i] \in es}
Count(l, e) == Cardinality(Positions(l, {e}))

\* C14 (connection release): a request acquires at most one connection; while
\* its handler runs the connection is held and not released; when the handler
\* has ended, on whatever path, a connection it acquired has been released
\* exactly once, as the last thing it did.
C14_ReleasedOnce ==
  \A p \in Procs :
    LET l == log[p] IN
    /\ Count(l, "connect") <= 1
    /\ ~Idle(p) => Count(l, "connect") = 1 /\ Count(l, "release") = 0
    /\ pc[p] = "done" =>
         /\ Count(l, "release") = Count(l, "connect")
         /\ Count(l, "connect") = 1 => l[Len(l)] = "release"

\* a rejection whose ROLLBACK threw, and the ROLLBACK of the catch block after it
C14_Witness ==
  \E p \in Procs :
    /\ pc[p] = "done"
    /\ log[p] = <<"connect", "BEGIN", "ROLLBACK failed", "ROLLBACK failed", "release">>

\* the multi-statement mutations
Mutations ==
  {"onboardCreator", "pairCouple", "unlinkCouple", "submitWelcomeAnswers", "updateProfile"}

\* C15 (rollback ordering): when a mutation that issued BEGIN has ended without
\* a 200, a ROLLBACK was issued before the connection was released, every
\* response was sent after a ROLLBACK that completed, no COMMIT was issued and
\* no write of the transaction is left pending.
C15_RollbackFirst ==
  \A p \in Procs :
    (/\ pc[p] = "done"
     /\ req[p].op \in Mutations
     /\ Count(log[p], "BEGIN") = 1
     /\ res[p].status # 200)
    => LET l == log[p] IN
       /\ \A i \in Positions(l, {"release"}) :
            \E j \in Positions(l, {"ROLLBACK", "ROLLBACK failed"}) : j < i
       /\ \A i \in Positions(l, {"respond"}) :
            \E j \in Positions(l, {"ROLLBACK"}) : j < i
       /\ Count(l, "release") = 1
       /\ Count(l, "COMMIT") = 0
       /\ tx[p] = NoTx

\* updateProfile failed at its second statement, the users row already written
C15_Witness ==
  \E p \in Procs :
    /\ Done(p, "updateProfile")
    /\ res[p].status = 500
    /\ loc[p].coupleId # NULL
    /\ req[p].body.rel_status # NullText
    /\ log[p] = <<"connect", "BEGIN", "ROLLBACK", "respond", "release">>

\* C16 (validation before transaction): a Pair whose invite code is missing or
\* empty is answered with a client error, without a connection being acquired
\* or BEGIN being issued.
C16_ValidationFirst ==
  \A p \in Procs :
    (Done(p, "pairCouple") /\ req[p].inviteCode \in BadPairCodes)
    => /\ res[p].status \in 400..499
       /\ Count(log[p], "connect") = 0
       /\ Count(log[p], "BEGIN") = 0

\* C18 (CreateInvite for a missing user): an onboardCreator for a user id with
\* no users row is not answered 200, and no couple has that id as creator_id;
\* unless a statement threw, its answer is an authentication error.
C18_MissingUserRejected ==
  \A p \in Procs :
    (Done(p, "onboardCreator") /\ req[p].user = DeletedUser)
    => /\ res[p].status # 200
       /\ \A c \in CoupleIds : Exists(c) => couples[c].creator_id # DeletedUser
       /\ Positions(log[p], {"ROLLBACK", "ROLLBACK failed"}) = {}
            => res[p].status \in {401, 403}

\* C25 (no dangling reference): every non-null users.couple_id refers to an
\* existing couples row.
C25_NoDanglingReference ==
  \A u \in Users : users[u].couple_id # NULL => Exists(users[u].couple_id)

\* C26 (partner slot written once): a committed couple that is full stays full
\* with the same partner_id until its row is deleted.
C26_PartnerWrittenOnce ==
  [][\A c \in CoupleIds :
       (Exists(c) /\ couples[c].status = "full")
       => \/ couples'[c] = NoRow
          \/ /\ couples'[c].status = "full"
             /\ couples'[c].partner_id = couples[c].partner_id]_vars

\* the waiting couples a user is creator_id of
WaitingInvites(u) ==
  {c \in CoupleIds :
     Exists(c) /\ couples[c].status = "waiting" /\ couples[c].creator_id = u}

\* C27 (one active invite per creator): no user is creator_id of more than one
\* waiting couple.
C27_OneActiveInvite ==
  \A u \in Users : Cardinality(WaitingInvites(u)) <= 1

\* C28 (ghost cleanup scope): a couple that a finished Pair has removed was
\* the joiner's previous couple, is not the target, was waiting and had the
\* joiner as creator_id; a Pair that did not answer 200 removed none.
C28_GhostCleanupScope ==
  \A p \in SeqProcs : \A c \in CoupleIds :
    (/\ Done(p, "pairCouple")
     /\ pre.couples[c] # NoRow
     /\ ~Exists(c))
    => /\ res[p].status = 200
       /\ c = pre.users[req[p].user].couple_id
       /\ c # loc[p].newCoupleId
       /\ pre.couples[c].status = "waiting"
       /\ pre.couples[c].creator_id = req[p].user

\* a joiner attached to a full couple paired into another couple, and the
\* full couple is still there
C28_Witness ==
  \E p \in SeqProcs : \E c \in CoupleIds :
    /\ Succeeded(p, "pairCouple")
    /\ c = pre.users[req[p].user].couple_id
    /\ c # loc[p].newCoupleId
    /\ pre.couples[c] # NoRow
    /\ pre.couples[c].status = "full"
    /\ Exists(c)

\* C29 (Pair keeps the joiner's profile when none is sent): after a successful
\* Pair whose body carries no nickname and no avatar_id, the joiner's nickname
\* and avatar_id are the ones the row had before the call.
C29_PairKeepsProfile ==
  \A p \in SeqProcs :
    (Succeeded(p, "pairCouple") /\ req[p].profile = NoProfile)
    => /\ users[req[p].user].nickname = pre.users[req[p].user].nickname
       /\ users[req[p].user].avatar_id = pre.users[req[p].user].avatar_id

MediaHandlers == {"upsertSharedPicture", "deleteSharedPicture"}

\* C24 (gateway failure isolation): when the media gateway call of
\* upsertSharedPicture or deleteSharedPicture failed, the caller got an error
\* response and every users and couples row is as it was before the call.
C24_GatewayFailureIsolation ==
  \A p \in SeqProcs :
    (/\ pc[p] = "done"
     /\ req[p].op \in MediaHandlers
     /\ Count(log[p], "gateway failed") = 1)
    => /\ res[p].status \in 400..599
       /\ users = pre.users
       /\ couples = pre.couples

\* the gateway failed to remove the picture of a couple that has one
C24_Witness ==
  \E p \in SeqProcs :
    /\ Done(p, "deleteSharedPicture")
    /\ Count(log[p], "gateway failed") = 1
    /\ couples[loc[p].coupleId].shared_image_url = SecureUrl

\* the paired couple of AnswersSpec is a state the handlers produce
PairedReachable ==
  users = PairedUsers /\ couples = PairedCouples /\ nextId = 2 /\ tx = [p \in Procs |-> NoTx]

\* C30 (no lost answers): no step removes a member's entry from a couple's
\* answers map, and whenever a submission that carried answers has committed,
\* the map holds those answers under the submitter's id, whatever other
\* submissions ran before, after or interleaved with it.
C30_NoLostAnswers ==
  [][\A c \in CoupleIds :
       couples'[c] # NoRow =>
         /\ \A u \in Users :
              (/\ couples[c] # NoRow
               /\ ~couples[c].answers.null
               /\ couples[c].answers.keys[u] # NullText)
              => /\ ~couples'[c].answers.null
                 /\ couples'[c].answers.keys[u] = couples[c].answers.keys[u]
         /\ \A p \in Procs :
              (/\ pc'[p] = "done"
               /\ req'[p].op = "submitWelcomeAnswers"
               /\ res'[p].status = 200
               /\ req'[p].answers # NoAnswers
               /\ loc'[p].coupleId = c)
              => /\ ~couples'[c].answers.null
                 /\ couples'[c].answers.keys[req'[p].user] = req'[p].answers]_vars

\* both members have submitted on different connections, and both entries are there
C30_Witness ==
  \E p, q \in Procs :
    /\ Succeeded(p, "submitWelcomeAnswers") /\ Succeeded(q, "submitWelcomeAnswers")
    /\ req[p].user # req[q].user
    /\ req[p].answers # NoAnswers /\ req[q].answers # NoAnswers
    /\ loc[p].coupleId = loc[q].coupleId
    /\ couples[loc[p].coupleId].answers.keys[req[p].user] = req[p].answers
    /\ couples[loc[p].coupleId].answers.keys[req[q].user] = req[q].answers

\* the couple row user u's couple_id refers to, NoRow if there is none
CoupleOf(u) ==
  IF users[u].couple_id \in CoupleIds THEN couples[users[u].couple_id] ELSE NoRow

\* the status handlers
StatusHandlers == {"getMe", "getDashboard"}

\* C21 (derived status): whenever getMe or getDashboard answers for a user, the
\* mode is solo exactly when the user's couple_id is null, waiting exactly when
\* it refers to a waiting couple and couple exactly when it refers to a full
\* couple, and the handler answers 200 unless its query threw; both handlers
\* compute the mode by the same rule from the same rows.
C21_DerivedStatus ==
  [][\A p \in Procs :
       (/\ pc[p] \in {"me_query", "dash_query"}
        /\ pc'[p] = "done"
        /\ req[p].user \in Users
        /\ res'[p].status # 500)
       => LET u == req[p].user
              m == loc'[p].mode
          IN /\ res'[p].status = 200
             /\ (m = "solo") <=> (users[u].couple_id = NULL)
             /\ (m = "waiting") <=> (CoupleOf(u) # NoRow /\ CoupleOf(u).status = "waiting")
             /\ (m = "couple") <=> (CoupleOf(u) # NoRow /\ CoupleOf(u).status = "full")]_vars

\* the users rows attached to the same couple as u, other than u
OtherMembers(u) == Members(users[u].couple_id) \ {u}

\* C22 (partner resolution): whenever getDashboard or getDashboardDetails
\* answers for a caller whose couple is full, the partner it resolves is the
\* one other users row with the caller's couple_id.
C22_PartnerResolution ==
  [][\A p \in Procs :
       (/\ pc[p] \in {"dash_query", "details_query"}
        /\ pc'[p] = "done"
        /\ res'[p].status = 200
        /\ CoupleOf(req[p].user) # NoRow
        /\ CoupleOf(req[p].user).status = "full")
       => OtherMembers(req[p].user) = {loc'[p].partner}]_vars

====
